---- MODULE Spec2Model ----
(***************************************************************************)
(* The redistribution bot of hope-protocol: the scheduler and runCycle of  *)
(* bot/src/index.ts, the fee claimer (fees.ts), the holder ranking with    *)
(* its cooldown map (holders.ts), the acquisition (swap.ts) and the        *)
(* distribution (distribute.ts).                                           *)
(*                                                                         *)
(* Units.  Reserve-currency amounts are integers counting 0.001 SOL, so    *)
(* GAS_THRESHOLD = 0.001 SOL is 1, MIN_FEE_SOL = 0.005 SOL is 5 and        *)
(* RESERVE_SOL = 0.01 SOL is 10.  Token amounts are integers.  A value the *)
(* code obtains by a division (retainedRatio, and everything computed from *)
(* it) is an exact rational [n, d] with d > 0, kept in lowest terms.       *)
(***************************************************************************)
EXTENDS Integers, Sequences, FiniteSets, TLC

VARIABLES
    cycleCount,     \* index.ts: let cycleCount
    lastRecipient,  \* index.ts: let lastRecipient
    recentWinners,  \* holders.ts: the Map wallet -> cycle won
    timer,          \* a setTimeout of scheduleNextCycle is pending
    active,         \* number of runCycle invocations started and not returned
    handler,        \* main has reached process.on("SIGINT", ...)
    halted,         \* the process has exited
    crashed,        \* a rejection escaped runCycle to the scheduler
    pc,             \* the await at which the running cycle stands
    accounts,       \* getHolders: the scanned token accounts
    history,        \* ledger: each owner's recent transactions, as scanned
    price,          \* getHolders: the price getPrice returned
    holders,        \* runCycle: the list getHolders returned
    topLoser,       \* runCycle: holders[0]
    curveRead,      \* claimFees: what the read of the bonding-curve account gave,
                    \* until the next step starts
    solAvailable,   \* runCycle: the amount claimFees returned
    tokensReceived, \* runCycle: the amount buyTokens returned
    toSend,         \* distribute: the recipient's part
    toBurn,         \* distribute: the destroyed part
    calls,          \* the pipeline functions runCycle has called in this cycle
    submitted,      \* the transactions this cycle has submitted to the ledger
    confirmedTx,    \* those of them whose confirmation the code has seen succeed
    outcome,        \* how the last cycle ended
    event,          \* the [EVENT] record the cycle printed
    opTokens,       \* ledger: tracked-asset balance of the operator account
    priceIn,        \* what the price source answered to getPrice
    feeIn,          \* what the ledger answered during claimFees, until the
                    \* next step starts
    swapIn,         \* what the venue and the ledger answered during buyTokens
    paidAt          \* ledger: the recipient and the cycle of the last confirmed
                    \* transfer of toSend

vars == << cycleCount, lastRecipient, recentWinners, timer, active, handler,
           halted, crashed, pc, accounts, history, price, holders, topLoser, curveRead,
           solAvailable, tokensReceived, toSend, toBurn, calls, submitted,
           confirmedTx, outcome, event, opTokens, priceIn, feeIn, swapIn,
           paidAt >>

(***************************************************************************)
(* Bounds of the model.                                                    *)
(***************************************************************************)
MaxCycles == 3   \* cycles the scheduler starts
MaxScan == 3     \* token accounts in one scan
MaxWon == 2      \* cycle numbers recorded when the ranking is checked alone
MaxTotal == 64   \* totals split when the split is checked alone
MaxTxs == 2      \* transactions in a window when the history is checked alone

(***************************************************************************)
(* Program constants.                                                      *)
(***************************************************************************)
RESERVE_SOL == 10
MIN_FEE_SOL == 5
CURVE_DUST == 1
GAS_THRESHOLD == 1
COOLDOWN_CYCLES == 2
SLIPPAGE_BPS == 500

NoWallet == "none"
BotWallet == "BOT"
EXCLUDED == {"X1"}
Wallets == {"W1", "W2"}

(***************************************************************************)
(* Exact rationals.                                                        *)
(***************************************************************************)
Abs(x) == IF x < 0 THEN -x ELSE x

RECURSIVE GCD(_, _)
GCD(a, b) == IF b = 0 THEN a ELSE GCD(b, a % b)

Rat(n, d) ==
    LET g == GCD(Abs(n), d)
    IN  [n |-> n \div g, d |-> d \div g]

RInt(i) == [n |-> i, d |-> 1]
RMul(a, b) == Rat(a.n * b.n, a.d * b.d)
RSub(a, b) == Rat(a.n * b.d - b.n * a.d, a.d * b.d)
RLt(a, b) == a.n * b.d < b.n * a.d
RLe(a, b) == a.n * b.d <= b.n * a.d
RMin(a, b) == IF RLt(b, a) THEN b ELSE a
Min(a, b) == IF b < a THEN b ELSE a
Max(a, b) == IF b > a THEN b ELSE a

MIN_VALUE_SOL == RInt(1)

(***************************************************************************)
(* holders.ts: the cooldown map.                                           *)
(***************************************************************************)
\* recordWinner replacing the map by the one entry.
recordWinnerForgetting(winners, wallet, cycle) ==
    [w \in {wallet} |-> cycle]

recordWinner(winners, wallet, cycle) ==
    [w \in DOMAIN winners \cup {wallet} |->
        IF w = wallet THEN cycle ELSE winners[w]]

isOnCooldownShort(winners, wallet, currentCycle) ==
    LET wonAt == IF wallet \in DOMAIN winners THEN winners[wallet] ELSE 0
    IN  IF wonAt = 0 THEN FALSE
        ELSE (currentCycle - wonAt) < COOLDOWN_CYCLES

\* Map.get gives undefined for an absent wallet; !wonAt is true of undefined
\* and of 0.
isOnCooldown(winners, wallet, currentCycle) ==
    LET wonAt == IF wallet \in DOMAIN winners THEN winners[wallet] ELSE 0
    IN  IF wonAt = 0 THEN FALSE
        ELSE (currentCycle - wonAt) <= COOLDOWN_CYCLES

(***************************************************************************)
(* holders.ts: getSwapHistory.  A window is what the ledger answers for    *)
(* the wallet: avail is FALSE when getSignaturesForAddress throws; each    *)
(* transaction has fetch ("ok", "nometa" when the transaction or its meta  *)
(* is null, "throw" when getParsedTransaction throws), the wallet's        *)
(* tracked-asset balance before and after (pre, post), keyed (the wallet   *)
(* is among the account keys), ownSpent (preSOL - postSOL at the wallet's  *)
(* index) and key0Spent (preSOL - postSOL at index 0).                     *)
(***************************************************************************)
SolSpent(tx) == IF tx.keyed THEN tx.ownSpent ELSE tx.key0Spent

Counts(tx) ==
    /\ tx.fetch = "ok"
    /\ tx.post - tx.pre > 0
    /\ SolSpent(tx) > GAS_THRESHOLD

\* ScanTxs giving up at the first transaction whose fetch throws.
RECURSIVE ScanTxsAborting(_, _)
ScanTxsAborting(txs, acc) ==
    IF txs = << >> THEN acc
    ELSE LET tx == Head(txs)
         IN  IF tx.fetch = "throw" THEN acc
             ELSE ScanTxsAborting(Tail(txs),
                     IF Counts(tx)
                     THEN [totalSolSpent |-> acc.totalSolSpent + SolSpent(tx),
                           totalTokensBought |->
                               acc.totalTokensBought + (tx.post - tx.pre)]
                     ELSE acc)

RECURSIVE ScanTxs(_, _)
ScanTxs(txs, acc) ==
    IF txs = << >> THEN acc
    ELSE LET tx == Head(txs)
         IN  ScanTxs(Tail(txs),
                     IF Counts(tx)
                     THEN [totalSolSpent |-> acc.totalSolSpent + SolSpent(tx),
                           totalTokensBought |->
                               acc.totalTokensBought + (tx.post - tx.pre)]
                     ELSE acc)

getSwapHistory(window) ==
    IF ~window.avail
    THEN [totalSolSpent |-> 0, totalTokensBought |-> 0]
    ELSE ScanTxs(window.txs, [totalSolSpent |-> 0, totalTokensBought |-> 0])

(***************************************************************************)
(* holders.ts: getHolders.  An account is [ata, owner, balance, parsed]    *)
(* (ata: its address; parsed: the account data has parsed.info).  hist     *)
(* gives each owner's window.                                              *)
(***************************************************************************)
\* HolderOf valuing the whole balance, without the cap at what was bought.
HolderOfUncapped(acct, hist, p) ==
    LET h == getSwapHistory(hist[acct.owner])
        retainedRatio == RMin(RInt(1), Rat(acct.balance, h.totalTokensBought))
        adjustedCostBasis == RMul(RInt(h.totalSolSpent), retainedRatio)
        currentValue == RMul(RInt(acct.balance), p)
    IN  [wallet |-> acct.owner,
         ata |-> acct.ata,
         balance |-> acct.balance,
         costBasis |-> adjustedCostBasis,
         currentValue |-> currentValue,
         pnl |-> RSub(currentValue, adjustedCostBasis),
         swapBought |-> h.totalTokensBought,
         retainedRatio |-> retainedRatio]

\* HolderOf without the clamp of retainedRatio at 1.
HolderOfUnclamped(acct, hist, p) ==
    LET h == getSwapHistory(hist[acct.owner])
        retainedRatio == Rat(acct.balance, h.totalTokensBought)
        effectiveBalance == Min(acct.balance, h.totalTokensBought)
        adjustedCostBasis == RMul(RInt(h.totalSolSpent), retainedRatio)
        currentValue == RMul(RInt(effectiveBalance), p)
    IN  [wallet |-> acct.owner,
         ata |-> acct.ata,
         balance |-> acct.balance,
         costBasis |-> adjustedCostBasis,
         currentValue |-> currentValue,
         pnl |-> RSub(currentValue, adjustedCostBasis),
         swapBought |-> h.totalTokensBought,
         retainedRatio |-> retainedRatio]

HolderOf(acct, hist, p) ==
    LET h == getSwapHistory(hist[acct.owner])
        retainedRatio == RMin(RInt(1), Rat(acct.balance, h.totalTokensBought))
        effectiveBalance == Min(acct.balance, h.totalTokensBought)
        adjustedCostBasis == RMul(RInt(h.totalSolSpent), retainedRatio)
        currentValue == RMul(RInt(effectiveBalance), p)
    IN  [wallet |-> acct.owner,
         ata |-> acct.ata,
         balance |-> acct.balance,
         costBasis |-> adjustedCostBasis,
         currentValue |-> currentValue,
         pnl |-> RSub(currentValue, adjustedCostBasis),
         swapBought |-> h.totalTokensBought,
         retainedRatio |-> retainedRatio]

\* Kept without the test of the owner.
KeptAnyOwner(acct, hist) ==
    /\ acct.parsed
    /\ ~(acct.balance <= 0)
    /\ LET h == getSwapHistory(hist[acct.owner])
       IN  ~(h.totalTokensBought <= 0 \/ h.totalSolSpent <= 0)

Kept(acct, hist) ==
    /\ acct.parsed
    /\ ~(acct.balance <= 0 \/ acct.owner \in EXCLUDED \/ acct.owner = BotWallet)
    /\ LET h == getSwapHistory(hist[acct.owner])
       IN  ~(h.totalTokensBought <= 0 \/ h.totalSolSpent <= 0)

RECURSIVE CollectHolders(_, _, _, _)
CollectHolders(accts, idx, hist, p) ==
    IF idx > Len(accts) THEN << >>
    ELSE (IF Kept(accts[idx], hist)
          THEN << HolderOf(accts[idx], hist, p) >> ELSE << >>)
         \o CollectHolders(accts, idx + 1, hist, p)

Eligible(h, currentCycle, winners) ==
    /\ ~RLt(h.currentValue, MIN_VALUE_SOL)
    /\ ~isOnCooldown(winners, h.wallet, currentCycle)

RECURSIVE FilterEligible(_, _, _)
FilterEligible(hs, currentCycle, winners) ==
    IF hs = << >> THEN << >>
    ELSE (IF Eligible(Head(hs), currentCycle, winners) THEN << Head(hs) >> ELSE << >>)
         \o FilterEligible(Tail(hs), currentCycle, winners)

\* Array.prototype.sort with (a, b) => a.pnl - b.pnl: a stable sort, so an
\* element goes after every element that does not compare greater.
RECURSIVE InsertByPnl(_, _)
InsertByPnl(h, s) ==
    IF s = << >> THEN << h >>
    ELSE IF RLt(h.pnl, Head(s).pnl) THEN << h >> \o s
    ELSE << Head(s) >> \o InsertByPnl(h, Tail(s))

RECURSIVE SortFrom(_, _)
SortFrom(hs, sorted) ==
    IF hs = << >> THEN sorted
    ELSE SortFrom(Tail(hs), InsertByPnl(Head(hs), sorted))

SortSkipped(hs) == hs

SortByPnl(hs) == SortFrom(hs, << >>)

getHolders(accts, hist, p, currentCycle, winners) ==
    SortByPnl(FilterEligible(CollectHolders(accts, 1, hist, p),
                             currentCycle, winners))

(***************************************************************************)
(* What the external collaborators can answer.                             *)
(***************************************************************************)
SeqsUpTo(S, n) == UNION { [1..k -> S] : k \in 0..n }

\* A scan returns each account once.
ScansOf(S, n) ==
    { s \in SeqsUpTo(S, n) : \A i, j \in 1..Len(s) : i # j => s[i] # s[j] }

BuyTx(bought, spent) ==
    [fetch |-> "ok", pre |-> 0, post |-> bought, keyed |-> TRUE,
     ownSpent |-> spent, key0Spent |-> spent]

TransferTx(amount) ==
    [fetch |-> "ok", pre |-> 0, post |-> amount, keyed |-> TRUE,
     ownSpent |-> 0, key0Spent |-> 0]

Window(txs) == [avail |-> TRUE, txs |-> txs]
NoWindow == [avail |-> FALSE, txs |-> << >>]

Account(ata, owner, balance) ==
    [ata |-> ata, owner |-> owner, balance |-> balance, parsed |-> TRUE]

Owners == Wallets \cup {BotWallet} \cup EXCLUDED

\* The token accounts a scan of the ledger can return while the bot runs,
\* and the transactions of their owners.
LedgerAccounts ==
    { Account("a1", "W1", 4), Account("a2", "W2", 2),
      Account("a4", BotWallet, 9), Account("a5", "X1", 4) }

Scans == ScansOf(LedgerAccounts, MaxScan)

Histories ==
    { [o \in Owners |->
          CASE o = "W1" -> Window(<< BuyTx(4, 8) >>)
            [] o = "W2" -> w2
            [] OTHER -> Window(<< BuyTx(9, 30) >>)]
      : w2 \in { Window(<< BuyTx(4, 12) >>), Window(<< TransferTx(5) >>) } }

NoHistory == [o \in Owners |-> NoWindow]

\* The prices the source can quote.
Prices == { RInt(0), RInt(1), RInt(2) }

\* What the price source answers: the request or the parse of its body
\* throws, the body has no price for the mint, or it has one.
PriceAnswersOf(ps) ==
    { [kind |-> "throw", price |-> RInt(0)], [kind |-> "none", price |-> RInt(0)] }
        \cup { [kind |-> "ok", price |-> q] : q \in ps }

PriceAnswers == PriceAnswersOf(Prices)

NoPriceIn == [kind |-> "unasked", price |-> RInt(0)]

getPriceStale(a) == IF a.kind = "ok" THEN a.price ELSE RInt(1)

\* parseFloat(... || "0") inside try; the catch returns 0.
getPrice(a) ==
    CASE a.kind = "throw" -> RInt(0)
      [] a.kind = "none" -> RInt(0)
      [] OTHER -> a.price

OperatorBalances == { 8, 12, 30 }
CurveBalances == { 0, 7 }
Quotes == { 0, 20, 21 }

(***************************************************************************)
(* fees.ts.  The answers of the ledger during one claimFees call are       *)
(* gathered in a record: read (the bonding-curve account as                *)
(* isOnBondingCurve reads it: "null", "empty" data, "data", or "throw"),   *)
(* read2 and lamports (the same account as withdrawPumpFunFees reads it),  *)
(* send and confirm (the withdraw transaction), balRead and balance (the   *)
(* operator's reserve-currency balance).                                   *)
(***************************************************************************)
AllFeeAnswers ==
    [ read : {"null", "empty", "data", "throw"},
      read2 : {"null", "info", "throw"},
      lamports : CurveBalances,
      send : {"throw", "ok"},
      confirm : {"throw", "err", "ok"},
      balRead : {"throw", "ok"},
      balance : OperatorBalances ]

\* An answer the code does not get to ask for is replaced by a fixed one.
FeeAsked(in) ==
    LET curve == in.read = "data"
        r2 == IF curve THEN in.read2 ELSE "null"
        lam == IF r2 = "info" THEN in.lamports ELSE 0
        snd == IF r2 = "info" /\ ~(lam < CURVE_DUST) THEN in.send ELSE "throw"
        cnf == IF snd = "ok" THEN in.confirm ELSE "throw"
        br == IF ~curve \/ cnf # "throw" THEN in.balRead ELSE "throw"
        bal == IF br = "ok" THEN in.balance ELSE 0
    IN  [read |-> in.read, read2 |-> r2, lamports |-> lam, send |-> snd,
         confirm |-> cnf, balRead |-> br, balance |-> bal]

FeeAnswers == { FeeAsked(in) : in \in AllFeeAnswers }

NoFeeIn ==
    [read |-> "unread", read2 |-> "null", lamports |-> 0, send |-> "throw",
     confirm |-> "throw", balRead |-> "throw", balance |-> 0]

isOnBondingCurve(in) ==
    CASE in.read = "null" -> FALSE
      [] in.read = "throw" -> FALSE
      [] in.read = "empty" -> FALSE
      [] OTHER -> TRUE

\* The withdraw transaction is submitted when the code reaches sendTransaction
\* and the call does not throw.
WithdrawSubmitted(in) ==
    /\ in.read2 = "info"
    /\ ~(in.lamports < CURVE_DUST)
    /\ in.send = "ok"

\* withdrawPumpFunFees returning the whole balance, without the reserve.
withdrawPumpFunFeesNoReserve(in) ==
    IF in.read2 # "info" THEN 0
    ELSE IF in.lamports < CURVE_DUST THEN 0
    ELSE IF in.send = "throw" THEN 0
    ELSE IF in.confirm = "throw" THEN 0
    ELSE IF in.balRead = "throw" THEN 0
    ELSE in.balance

\* confirmTransaction's result is awaited but its value.err is not read.
withdrawPumpFunFees(in) ==
    IF in.read2 # "info" THEN 0
    ELSE IF in.lamports < CURVE_DUST THEN 0
    ELSE IF in.send = "throw" THEN 0
    ELSE IF in.confirm = "throw" THEN 0
    ELSE IF in.balRead = "throw" THEN 0
    ELSE Max(0, in.balance - RESERVE_SOL)

ClaimThrows(in) == ~isOnBondingCurve(in) /\ in.balRead = "throw"

claimFees(in) ==
    IF isOnBondingCurve(in)
    THEN withdrawPumpFunFees(in)
    ELSE LET available == Max(0, in.balance - RESERVE_SOL)
         IN  IF available < MIN_FEE_SOL THEN 0 ELSE available

(***************************************************************************)
(* swap.ts.  The answers of the venue and of the ledger during one         *)
(* buyTokens call: quote ("fail" when the request fails, "none" when the   *)
(* response has no outAmount, "ok"), outAmount, swapTx, send, confirm      *)
(* ("throw" on a timeout, "err" when the confirmation returns an execution *)
(* error, "ok"), and what the ledger did: landed and shortfall.            *)
(***************************************************************************)
MinOut(q) == q - (q * SLIPPAGE_BPS) \div 10000

AllSwapAnswers ==
    [ quote : {"fail", "none", "ok"},
      outAmount : Quotes,
      swapTx : {"fail", "none", "ok"},
      send : {"throw", "ok"},
      confirm : {"throw", "err", "ok"},
      landed : BOOLEAN,
      shortfall : BOOLEAN ]

\* An answer the code does not get to ask for is replaced by a fixed one.
SwapAsked(in) ==
    LET out == IF in.quote = "ok" THEN in.outAmount ELSE 0
        stx == IF in.quote = "ok" /\ out # 0 THEN in.swapTx ELSE "fail"
        snd == IF stx = "ok" THEN in.send ELSE "throw"
        cnf == IF snd = "ok" THEN in.confirm ELSE "throw"
        lnd == IF snd = "ok" /\ cnf = "throw" THEN in.landed
               ELSE (snd = "ok" /\ cnf = "ok")
        sht == IF lnd THEN in.shortfall ELSE FALSE
    IN  [quote |-> in.quote, outAmount |-> out, swapTx |-> stx, send |-> snd,
         confirm |-> cnf, landed |-> lnd, shortfall |-> sht]

SwapAnswers == { SwapAsked(in) : in \in AllSwapAnswers }

NoSwapIn ==
    [quote |-> "unasked", outAmount |-> 0, swapTx |-> "fail", send |-> "throw",
     confirm |-> "throw", landed |-> FALSE, shortfall |-> FALSE]

SwapSubmitted(in) ==
    /\ in.quote = "ok" /\ in.outAmount # 0
    /\ in.swapTx = "ok"
    /\ in.send = "ok"

\* What the ledger credits to the operator account: nothing unless the swap
\* was submitted and executed; an executed swap delivers the quoted amount or,
\* within the slippage bound, less.
SwapDelivered(in) ==
    IF ~SwapSubmitted(in) THEN 0
    ELSE IF in.confirm = "err" THEN 0
    ELSE IF in.confirm = "throw" /\ ~in.landed THEN 0
    ELSE IF in.shortfall THEN MinOut(in.outAmount) ELSE in.outAmount

BuyThrowsNoTimeout(in) ==
    \/ in.quote # "ok"
    \/ in.outAmount = 0
    \/ in.swapTx # "ok"
    \/ in.send = "throw"

BuyThrows(in) ==
    \/ in.quote # "ok"
    \/ in.outAmount = 0
    \/ in.swapTx # "ok"
    \/ in.send = "throw"
    \/ in.confirm = "throw"

buyTokens(in) == in.outAmount

(***************************************************************************)
(* distribute.ts.                                                          *)
(***************************************************************************)
SplitSend(totalRaw) == totalRaw \div 2

SplitBurnHalf(totalRaw) == totalRaw \div 2

SplitBurn(totalRaw) == totalRaw - SplitSend(totalRaw)

\* sendAndConfirmTransaction: "nosubmit" (the submission is refused),
\* "expired" (submitted, never executed), "lost" (executed, but the
\* confirmation times out), "ok".  All but "ok" throw.
TxOutcomes == {"nosubmit", "expired", "lost", "ok"}
TxSubmitted(o) == o # "nosubmit"
TxExecuted(o) == o \in {"lost", "ok"}

(***************************************************************************)
(* index.ts: the state after main has printed its configuration, before    *)
(* the first runCycle.                                                     *)
(***************************************************************************)
NoHolder ==
    [wallet |-> NoWallet, ata |-> NoWallet, balance |-> 0, costBasis |-> RInt(0),
     currentValue |-> RInt(0), pnl |-> RInt(0), swapBought |-> 0,
     retainedRatio |-> RInt(0)]

NoRecipient == [wallet |-> NoWallet, amount |-> 0]

NoTransfer == [wallet |-> NoWallet, cycle |-> 0]

NoEvent ==
    [cycle |-> 0, recipient |-> NoWallet, solUsed |-> 0, tokensSent |-> 0,
     tokensBurned |-> 0]

Init ==
    /\ cycleCount = 0
    /\ lastRecipient = NoRecipient
    /\ recentWinners = << >>
    /\ timer = FALSE
    /\ active = 0
    /\ handler = FALSE
    /\ halted = FALSE
    /\ crashed = FALSE
    /\ pc = "main"
    /\ accounts = << >>
    /\ history = NoHistory
    /\ price = RInt(0)
    /\ holders = << >>
    /\ topLoser = NoHolder
    /\ curveRead = "unread"
    /\ priceIn = NoPriceIn
    /\ feeIn = NoFeeIn
    /\ swapIn = NoSwapIn
    /\ solAvailable = 0
    /\ tokensReceived = 0
    /\ toSend = 0
    /\ toBurn = 0
    /\ calls = {}
    /\ submitted = {}
    /\ confirmedTx = {}
    /\ outcome = "none"
    /\ event = NoEvent
    /\ opTokens = 0
    /\ paidAt = NoTransfer

(***************************************************************************)
(* index.ts: how a step of runCycle hands on.                              *)
(***************************************************************************)
GotoSkipping(p) ==
    /\ pc' = (IF p = "buy" THEN "send" ELSE p)
    /\ UNCHANGED << timer, active, handler, halted, crashed, outcome >>

Goto(p) ==
    /\ pc' = p
    /\ UNCHANGED << timer, active, handler, halted, crashed, outcome >>

\* setTimeout in scheduleNextCycle.
scheduleNextCycle == timer' = TRUE

\* runCycle returns; the awaiting caller (main, or the timer callback) goes on
\* in the same turn of the event loop: it calls scheduleNextCycle and, in main,
\* registers the SIGINT handler.
Return(o) ==
    /\ pc' = "idle"
    /\ active' = active - 1
    /\ outcome' = o
    /\ scheduleNextCycle
    /\ handler' = TRUE
    /\ UNCHANGED << halted, crashed >>

FailEscapes ==
    /\ pc' = "idle"
    /\ active' = active - 1
    /\ outcome' = "failed"
    /\ crashed' = TRUE
    /\ halted' = TRUE
    /\ UNCHANGED << timer, handler >>

\* A step throws: the catch of runCycle logs the error and runCycle returns.
Fail == Return("failed")

\* runCycle's first statements.
BeginCycle ==
    /\ cycleCount' = cycleCount + 1
    /\ active' = active + 1
    /\ pc' = "scan"
    /\ outcome' = "running"
    /\ accounts' = << >>
    /\ history' = NoHistory
    /\ price' = RInt(0)
    /\ holders' = << >>
    /\ topLoser' = NoHolder
    /\ curveRead' = "unread"
    /\ priceIn' = NoPriceIn
    /\ feeIn' = NoFeeIn
    /\ swapIn' = NoSwapIn
    /\ solAvailable' = 0
    /\ tokensReceived' = 0
    /\ toSend' = 0
    /\ toBurn' = 0
    /\ calls' = {}
    /\ submitted' = {}
    /\ confirmedTx' = {}
    /\ event' = NoEvent
    /\ UNCHANGED << lastRecipient, recentWinners, handler, halted, crashed,
                    opTokens, paidAt >>

\* main: await runCycle(conn, payer).
StartupCycle ==
    /\ ~halted
    /\ pc = "main"
    /\ BeginCycle
    /\ UNCHANGED timer

TimerFireRearms ==
    /\ ~halted
    /\ timer
    /\ cycleCount < MaxCycles
    /\ timer' = TRUE
    /\ BeginCycle

\* The callback of setTimeout: await runCycle(conn, payer).
TimerFire ==
    /\ ~halted
    /\ timer
    /\ cycleCount < MaxCycles
    /\ timer' = FALSE
    /\ BeginCycle

(***************************************************************************)
(* Step 1: getHolders, which reads the ledger and the price and returns    *)
(* the ranked list, and runCycle's look at the result.                     *)
(***************************************************************************)
ScanThrows ==
    /\ ~halted
    /\ pc = "scan"
    /\ Fail
    /\ UNCHANGED << cycleCount, lastRecipient, recentWinners, accounts, history, price,
                    holders, topLoser, curveRead, paidAt, priceIn, feeIn, swapIn, solAvailable, tokensReceived,
                    toSend, toBurn, calls, submitted, confirmedTx, event,
                    opTokens >>

Scan ==
    /\ ~halted
    /\ pc = "scan"
    /\ \E a \in Scans, h \in Histories, pa \in PriceAnswers :
          /\ priceIn' = pa
          /\ holders' = getHolders(a, h, getPrice(pa), cycleCount, recentWinners)
    /\ Goto("select")
    /\ UNCHANGED << cycleCount, lastRecipient, recentWinners, accounts, history, price,
                    topLoser, curveRead, paidAt, feeIn, swapIn, solAvailable, tokensReceived, toSend,
                    toBurn, calls, submitted, confirmedTx, event, opTokens >>

NobodyAtLossStrict(h) == RLt(RInt(0), h.pnl)

\* topLoser.pnl >= 0
NobodyAtLoss(h) == ~RLt(h.pnl, RInt(0))

\* Once runCycle has taken holders[0] nothing reads the rest of the list,
\* and it is dropped here.
Select ==
    /\ ~halted
    /\ pc = "select"
    /\ IF holders = << >>
       THEN /\ Return("skip_no_holders")
            /\ UNCHANGED << topLoser, holders >>
       ELSE /\ topLoser' = holders[1]
            /\ holders' = << holders[1] >>
            /\ IF NobodyAtLoss(holders[1])
               THEN Return("skip_profit")
               ELSE Goto("claim")
    /\ UNCHANGED << cycleCount, lastRecipient, recentWinners, accounts, history,
                    price, curveRead, paidAt, priceIn, feeIn, swapIn, solAvailable, tokensReceived, toSend,
                    toBurn, calls, submitted, confirmedTx, event, opTokens >>

(***************************************************************************)
(* Step 2: claimFees.                                                      *)
(***************************************************************************)
Claim ==
    /\ ~halted
    /\ pc = "claim"
    /\ \E in \in FeeAnswers :
          /\ calls' = calls \cup {"claimFees"}
          /\ curveRead' = in.read
          /\ feeIn' = in
          /\ submitted' =
                IF isOnBondingCurve(in) /\ WithdrawSubmitted(in)
                THEN submitted \cup {"withdraw"} ELSE submitted
          /\ confirmedTx' =
                IF isOnBondingCurve(in) /\ WithdrawSubmitted(in) /\ in.confirm = "ok"
                THEN confirmedTx \cup {"withdraw"} ELSE confirmedTx
          /\ IF ClaimThrows(in)
             THEN /\ Fail
                  /\ UNCHANGED solAvailable
             ELSE /\ solAvailable' = claimFees(in)
                  /\ IF claimFees(in) <= 0
                     THEN Return("skip_no_fees")
                     ELSE Goto("buy")
    /\ UNCHANGED << cycleCount, lastRecipient, recentWinners, accounts, history, price,
                    holders, topLoser, tokensReceived, toSend, toBurn, event,
                    opTokens, priceIn, swapIn, paidAt >>

(***************************************************************************)
(* Step 3: buyTokens.                                                      *)
(***************************************************************************)
Buy ==
    /\ ~halted
    /\ pc = "buy"
    /\ \E in \in SwapAnswers :
          /\ calls' = calls \cup {"buyTokens"}
          /\ submitted' =
                IF SwapSubmitted(in) THEN submitted \cup {"swap"} ELSE submitted
          /\ confirmedTx' =
                IF SwapSubmitted(in) /\ in.confirm = "ok"
                THEN confirmedTx \cup {"swap"} ELSE confirmedTx
          /\ opTokens' = opTokens + SwapDelivered(in)
          /\ curveRead' = "unread"
          /\ feeIn' = NoFeeIn
          /\ swapIn' = in
          /\ IF BuyThrows(in)
             THEN /\ Fail
                  /\ UNCHANGED tokensReceived
             ELSE /\ tokensReceived' = buyTokens(in)
                  /\ IF buyTokens(in) = 0
                     THEN Return("skip_no_tokens")
                     ELSE Goto("send")
    /\ UNCHANGED << cycleCount, lastRecipient, recentWinners, accounts, history, price,
                    holders, topLoser, solAvailable, toSend, toBurn,
                    event, priceIn, paidAt >>

(***************************************************************************)
(* Step 4: getDecimals and distribute, in two parts: up to the end of the  *)
(* transfer to the recipient, and from there to the end of runCycle.       *)
(***************************************************************************)
SendAssumed(o) == TRUE

\* await sendAndConfirmTransaction(conn, tx1, ...) returns, without throwing.
SendConfirmed(o) == o = "ok"

Send ==
    /\ ~halted
    /\ pc = "send"
    /\ \E o \in TxOutcomes :
          /\ TxExecuted(o) => opTokens >= SplitSend(tokensReceived)
          /\ calls' = calls \cup {"getDecimals", "distribute"}
          /\ toSend' = SplitSend(tokensReceived)
          /\ toBurn' = SplitBurn(tokensReceived)
          /\ submitted' =
                IF TxSubmitted(o) THEN submitted \cup {"send"} ELSE submitted
          /\ confirmedTx' =
                IF o = "ok" THEN confirmedTx \cup {"send"} ELSE confirmedTx
          /\ opTokens' =
                IF TxExecuted(o) THEN opTokens - SplitSend(tokensReceived)
                ELSE opTokens
          /\ paidAt' =
                IF o = "ok"
                THEN [wallet |-> topLoser.wallet, cycle |-> cycleCount]
                ELSE paidAt
          /\ IF SendConfirmed(o) THEN Goto("burn") ELSE Fail
    /\ UNCHANGED << cycleCount, lastRecipient, recentWinners, accounts, history, price,
                    holders, topLoser, curveRead, priceIn, feeIn, swapIn, solAvailable, tokensReceived,
                    event >>

\* Number(tokensReceived / 2n) / 10 ** decimals, in raw units.
halfAmount == tokensReceived \div 2

Burn ==
    /\ ~halted
    /\ pc = "burn"
    /\ \E o \in TxOutcomes :
          /\ TxExecuted(o) => opTokens >= toBurn
          /\ submitted' =
                IF TxSubmitted(o) THEN submitted \cup {"burn"} ELSE submitted
          /\ confirmedTx' =
                IF o = "ok" THEN confirmedTx \cup {"burn"} ELSE confirmedTx
          /\ opTokens' = IF TxExecuted(o) THEN opTokens - toBurn ELSE opTokens
          /\ IF o = "ok"
             THEN /\ lastRecipient' =
                        [wallet |-> topLoser.wallet, amount |-> halfAmount]
                  /\ recentWinners' =
                        recordWinner(recentWinners, topLoser.wallet, cycleCount)
                  /\ event' =
                        [cycle |-> cycleCount, recipient |-> topLoser.wallet,
                         solUsed |-> solAvailable, tokensSent |-> halfAmount,
                         tokensBurned |-> halfAmount]
                  /\ Return("complete")
             ELSE /\ Fail
                  /\ UNCHANGED << lastRecipient, recentWinners, event >>
    /\ UNCHANGED << cycleCount, accounts, history, price, holders, topLoser, curveRead, paidAt, priceIn, feeIn, swapIn,
                    solAvailable, tokensReceived, toSend, toBurn, calls >>

(***************************************************************************)
(* The shutdown signal.  With the handler registered, the handler logs and *)
(* calls process.exit(0); before that, the signal ends the process by      *)
(* default.  Either way nothing of the process runs afterwards.            *)
(***************************************************************************)
Sigint ==
    /\ ~halted
    /\ halted' = TRUE
    /\ UNCHANGED << cycleCount, lastRecipient, recentWinners, timer, active,
                    handler, crashed, pc, accounts, history, price, holders, topLoser,
                    curveRead, paidAt, priceIn, feeIn, swapIn, solAvailable, tokensReceived, toSend, toBurn,
                    calls, submitted, confirmedTx, outcome, event, opTokens >>

Next ==
    \/ StartupCycle
    \/ TimerFire
    \/ ScanThrows
    \/ Scan
    \/ Select
    \/ Claim
    \/ Buy
    \/ Send
    \/ Burn
    \/ Sigint

Spec == Init /\ [][Next]_vars

\* setTimeout fires its callback once the interval has passed.  Nothing is
\* assumed about the steps of runCycle: fetch is called without a timeout or
\* an abort signal, and the Connection is given only
\* confirmTransactionInitialTimeout, so an await whose collaborator never
\* answers never returns.
FairSpec == Spec /\ WF_vars(TimerFire)

(***************************************************************************)
(* The ranking alone: recordWinner and getHolders applied to arguments     *)
(* drawn from bounded sets.  cycleCount holds the currentCycle argument.   *)
(***************************************************************************)
RankAccounts ==
    { Account("a1", "W1", 2), Account("a2", "W1", 6), Account("a3", "W2", 6),
      Account("a4", "W2", 0), Account("a5", BotWallet, 4),
      Account("a6", "X1", 4),
      [ata |-> "a7", owner |-> "W2", balance |-> 6, parsed |-> FALSE] }

RankScans == ScansOf(RankAccounts, MaxScan)

RankHistories ==
    { [o \in Owners |->
          CASE o = "W1" -> w1
            [] o = "W2" -> w2
            [] OTHER -> Window(<< BuyTx(4, 8) >>)]
      : w1 \in { NoWindow, Window(<< BuyTx(4, 8) >>) },
        w2 \in { Window(<< TransferTx(5) >>),
                 Window(<< BuyTx(4, 8), TransferTx(2) >>) } }

RankPrices == { RInt(0), Rat(1, 4), RInt(1), RInt(3) }

InitRank ==
    /\ cycleCount = 0
    /\ lastRecipient = NoRecipient
    /\ recentWinners = << >>
    /\ timer = FALSE
    /\ active = 0
    /\ handler = FALSE
    /\ halted = FALSE
    /\ crashed = FALSE
    /\ pc = "fn"
    /\ accounts = << >>
    /\ history = NoHistory
    /\ price = RInt(0)
    /\ holders = << >>
    /\ topLoser = NoHolder
    /\ curveRead = "unread"
    /\ priceIn = NoPriceIn
    /\ feeIn = NoFeeIn
    /\ swapIn = NoSwapIn
    /\ solAvailable = 0
    /\ tokensReceived = 0
    /\ toSend = 0
    /\ toBurn = 0
    /\ calls = {}
    /\ submitted = {}
    /\ confirmedTx = {}
    /\ outcome = "none"
    /\ event = NoEvent
    /\ opTokens = 0
    /\ paidAt = NoTransfer

RecordWin ==
    /\ pc = "fn"
    /\ \E w \in Wallets, k \in 1..MaxWon :
          recentWinners' = recordWinner(recentWinners, w, k)
    /\ pc' = "fn"
    /\ cycleCount' = 0
    /\ accounts' = << >>
    /\ history' = NoHistory
    /\ price' = RInt(0)
    /\ holders' = << >>
    /\ UNCHANGED << lastRecipient, timer, active, handler, halted, crashed,
                    topLoser, curveRead, paidAt, priceIn, feeIn, swapIn, solAvailable, tokensReceived, toSend,
                    toBurn, calls, submitted, confirmedTx, outcome, event,
                    opTokens >>

RankCall ==
    /\ pc = "fn"
    /\ \E a \in RankScans, h \in RankHistories,
          pa \in PriceAnswersOf(RankPrices),
          c \in 2..(MaxWon + COOLDOWN_CYCLES + 1) :
          /\ accounts' = a
          /\ history' = h
          /\ priceIn' = pa
          /\ price' = getPrice(pa)
          /\ cycleCount' = c
          /\ holders' = getHolders(a, h, getPrice(pa), c, recentWinners)
    /\ pc' = "ranked"
    /\ UNCHANGED << lastRecipient, recentWinners, timer, active, handler,
                    halted, crashed, topLoser, curveRead, paidAt, feeIn, swapIn, solAvailable,
                    tokensReceived, toSend, toBurn, calls, submitted,
                    confirmedTx, outcome, event, opTokens >>

NextRank == RecordWin \/ RankCall

SpecRank == InitRank /\ [][NextRank]_vars

(***************************************************************************)
(* The split of distribute alone, for every total up to MaxTotal.          *)
(***************************************************************************)
InitSplit ==
    /\ cycleCount = 0
    /\ lastRecipient = NoRecipient
    /\ recentWinners = << >>
    /\ timer = FALSE
    /\ active = 0
    /\ handler = FALSE
    /\ halted = FALSE
    /\ crashed = FALSE
    /\ pc = "split_in"
    /\ accounts = << >>
    /\ history = NoHistory
    /\ price = RInt(0)
    /\ holders = << >>
    /\ topLoser = NoHolder
    /\ curveRead = "unread"
    /\ priceIn = NoPriceIn
    /\ feeIn = NoFeeIn
    /\ swapIn = NoSwapIn
    /\ solAvailable = 0
    /\ tokensReceived \in 1..MaxTotal
    /\ toSend = 0
    /\ toBurn = 0
    /\ calls = {}
    /\ submitted = {}
    /\ confirmedTx = {}
    /\ outcome = "none"
    /\ event = NoEvent
    /\ opTokens = 0
    /\ paidAt = NoTransfer

SplitCall ==
    /\ pc = "split_in"
    /\ toSend' = SplitSend(tokensReceived)
    /\ toBurn' = SplitBurn(tokensReceived)
    /\ pc' = "split"
    /\ UNCHANGED << cycleCount, lastRecipient, recentWinners, timer, active,
                    handler, halted, crashed, accounts, history, price,
                    holders, topLoser, curveRead, paidAt, priceIn, feeIn, swapIn, solAvailable, tokensReceived,
                    calls, submitted, confirmedTx, outcome, event, opTokens >>

SpecSplit == InitSplit /\ [][SplitCall]_vars

(***************************************************************************)
(* The swap history alone: getHolders applied to a token account of W1,    *)
(* whose window is drawn from sequences of the transactions below, and to  *)
(* a token account of W2, whose window holds one purchase.                 *)
(***************************************************************************)
WindowTxs ==
    { BuyTx(4, 8),
      TransferTx(5),
      \* a transfer whose receiver paid exactly the gas threshold
      [fetch |-> "ok", pre |-> 0, post |-> 5, keyed |-> TRUE,
       ownSpent |-> GAS_THRESHOLD, key0Spent |-> GAS_THRESHOLD],
      \* transfers to a wallet that is not among the account keys
      [fetch |-> "ok", pre |-> 0, post |-> 5, keyed |-> FALSE,
       ownSpent |-> 0, key0Spent |-> 3],
      [fetch |-> "ok", pre |-> 0, post |-> 5, keyed |-> FALSE,
       ownSpent |-> 0, key0Spent |-> 0],
      \* a sale
      [fetch |-> "ok", pre |-> 5, post |-> 1, keyed |-> TRUE,
       ownSpent |-> -6, key0Spent |-> -6],
      \* purchases that cannot be fetched
      [fetch |-> "nometa", pre |-> 0, post |-> 4, keyed |-> TRUE,
       ownSpent |-> 8, key0Spent |-> 8],
      [fetch |-> "throw", pre |-> 0, post |-> 4, keyed |-> TRUE,
       ownSpent |-> 8, key0Spent |-> 8] }

Windows == { NoWindow } \cup { Window(t) : t \in SeqsUpTo(WindowTxs, MaxTxs) }

WindowBalances == { 1, 5, 9 }

InitWindow ==
    /\ cycleCount = 0
    /\ lastRecipient = NoRecipient
    /\ recentWinners = << >>
    /\ timer = FALSE
    /\ active = 0
    /\ handler = FALSE
    /\ halted = FALSE
    /\ crashed = FALSE
    /\ pc = "window_in"
    /\ accounts = << >>
    /\ history = NoHistory
    /\ price = RInt(0)
    /\ holders = << >>
    /\ topLoser = NoHolder
    /\ curveRead = "unread"
    /\ priceIn = NoPriceIn
    /\ feeIn = NoFeeIn
    /\ swapIn = NoSwapIn
    /\ solAvailable = 0
    /\ tokensReceived = 0
    /\ toSend = 0
    /\ toBurn = 0
    /\ calls = {}
    /\ submitted = {}
    /\ confirmedTx = {}
    /\ outcome = "none"
    /\ event = NoEvent
    /\ opTokens = 0
    /\ paidAt = NoTransfer

WindowCall ==
    /\ pc = "window_in"
    /\ \E w \in Windows, b \in WindowBalances :
          LET a == << Account("a1", "W1", b), Account("a2", "W2", 6) >>
              h == [NoHistory EXCEPT !["W1"] = w,
                                     !["W2"] = Window(<< BuyTx(4, 8) >>)]
              pa == [kind |-> "ok", price |-> RInt(1)]
          IN  /\ accounts' = a
              /\ history' = h
              /\ priceIn' = pa
              /\ price' = getPrice(pa)
              /\ cycleCount' = 1
              /\ holders' = getHolders(a, h, getPrice(pa), 1, recentWinners)
    /\ pc' = "window"
    /\ UNCHANGED << lastRecipient, recentWinners, timer, active, handler,
                    halted, crashed, topLoser, curveRead, paidAt, feeIn, swapIn,
                    solAvailable, tokensReceived, toSend, toBurn, calls,
                    submitted, confirmedTx, outcome, event, opTokens >>

SpecWindow == InitWindow /\ [][WindowCall]_vars

(***************************************************************************)
(* The figures of one holder alone: getHolders applied to one token        *)
(* account of W1 whose window holds one purchase.  Amounts of reserve      *)
(* currency count 0.001 SOL: a spend of 10 SOL is 10000 and a price of     *)
(* 0.02 SOL is 20.                                                         *)
(***************************************************************************)
PnlBalances == { 1, 3, 6, 300, 1000 }
PnlBought == { 2, 6, 800, 1000 }
PnlSpent == { 2, 7, 10000, 50000 }
PnlPrices == { Rat(1, 4), RInt(1), RInt(10), RInt(20) }

InitPnl ==
    /\ cycleCount = 0
    /\ lastRecipient = NoRecipient
    /\ recentWinners = << >>
    /\ timer = FALSE
    /\ active = 0
    /\ handler = FALSE
    /\ halted = FALSE
    /\ crashed = FALSE
    /\ pc = "pnl_in"
    /\ accounts = << >>
    /\ history = NoHistory
    /\ price = RInt(0)
    /\ holders = << >>
    /\ topLoser = NoHolder
    /\ curveRead = "unread"
    /\ priceIn = NoPriceIn
    /\ feeIn = NoFeeIn
    /\ swapIn = NoSwapIn
    /\ solAvailable = 0
    /\ tokensReceived = 0
    /\ toSend = 0
    /\ toBurn = 0
    /\ calls = {}
    /\ submitted = {}
    /\ confirmedTx = {}
    /\ outcome = "none"
    /\ event = NoEvent
    /\ opTokens = 0
    /\ paidAt = NoTransfer

PnlCall ==
    /\ pc = "pnl_in"
    /\ \E b \in PnlBalances, tb \in PnlBought, ts \in PnlSpent, q \in PnlPrices :
          LET a == << Account("a1", "W1", b) >>
              h == [NoHistory EXCEPT !["W1"] = Window(<< BuyTx(tb, ts) >>)]
              pa == [kind |-> "ok", price |-> q]
          IN  /\ accounts' = a
              /\ history' = h
              /\ priceIn' = pa
              /\ price' = getPrice(pa)
              /\ cycleCount' = 1
              /\ holders' = getHolders(a, h, getPrice(pa), 1, recentWinners)
    /\ pc' = "pnl"
    /\ UNCHANGED << lastRecipient, recentWinners, timer, active, handler,
                    halted, crashed, topLoser, curveRead, paidAt, feeIn, swapIn,
                    solAvailable, tokensReceived, toSend, toBurn, calls,
                    submitted, confirmedTx, outcome, event, opTokens >>

SpecPnl == InitPnl /\ [][PnlCall]_vars

(***************************************************************************)
(* Properties of the cycle engine (Spec, FairSpec).                        *)
(***************************************************************************)

\* C1: a cycle whose ranked list is empty, or whose first holder has
\* pnl >= 0, ends without calling claimFees, buyTokens or distribute and
\* without submitting any transaction.
C1_SkippedCycleMakesNoCalls ==
    (/\ pc \notin {"main", "scan", "select"}
     /\ (holders = << >> \/ RLe(RInt(0), holders[1].pnl)))
        => (/\ calls \cap {"claimFees", "buyTokens", "distribute"} = {}
            /\ submitted = {})

C1_ProfitableTopHolderSkipped ==
    /\ pc = "idle"
    /\ outcome = "skip_profit"
    /\ holders # << >>
    /\ holders[1].pnl = RInt(0)
    /\ calls = {}
    /\ submitted = {}

\* C3: at most one runCycle is in progress at any time.
C3_CyclesNeverOverlap == active <= 1

C3_SecondCycleRunsAlone ==
    /\ cycleCount = 2
    /\ active = 1
    /\ pc = "burn"
    /\ ~timer

\* C4: a failure of any step is caught inside runCycle and never leaves it;
\* after every cycle that ends, whatever its outcome, the timer is armed; and
\* as long as no shutdown signal arrives another cycle starts.
C4_FailuresCaughtAndRescheduled ==
    /\ [](~crashed)
    /\ [](pc = "idle" => timer)
    /\ ((pc = "idle" /\ cycleCount < MaxCycles) ~> (pc = "scan" \/ halted))

C4_FailedSendRescheduled ==
    /\ pc = "idle"
    /\ outcome = "failed"
    /\ "send" \in submitted
    /\ "burn" \notin submitted
    /\ timer
    /\ ~halted
    /\ ~crashed

\* C5: a shutdown signal that arrives while a cycle is in flight, the startup
\* cycle included, lets that cycle run to its end before the process stops.
C5_SignalLetsCycleFinish == halted => pc \in {"main", "idle"}

\* C7: the burn transaction is submitted only after the send transaction has
\* been confirmed; when the send fails no burn is submitted.
C7_BurnOnlyAfterConfirmedSend ==
    /\ "burn" \in submitted => "send" \in confirmedTx
    /\ (outcome = "failed" /\ "distribute" \in calls /\ "send" \notin confirmedTx)
          => "burn" \notin submitted

C7_BurnFollowsConfirmedSend ==
    /\ "burn" \in submitted
    /\ "send" \in confirmedTx
    /\ toBurn > 0

\* C8: the tokens a cycle leaves in the operator account because its send
\* failed are distributed by a later cycle that completes.
SendFailedLeavingTokens ==
    /\ pc = "idle"
    /\ outcome = "failed"
    /\ "distribute" \in calls
    /\ "send" \notin confirmedTx
    /\ opTokens > 0

C8_LeftoverIsRedistributed ==
    [](SendFailedLeavingTokens => [](outcome = "complete" => opTokens = 0))

\* C9: whichever state the fee claimer finds the token in, a usable amount
\* of 0 or below MIN_FEE_SOL means buyTokens is not called.
C9_NoBuyBelowThreshold == "buyTokens" \in calls => solAvailable >= MIN_FEE_SOL

\* The venue gave no quote, a zero output amount or no transaction, or the
\* submission of the swap failed, or its confirmation timed out.
AcquisitionFailed(in) ==
    \/ in.quote \in {"fail", "none"}
    \/ (in.quote = "ok" /\ in.outAmount = 0)
    \/ in.swapTx \in {"fail", "none"}
    \/ in.send = "throw"
    \/ in.confirm = "throw"

\* C14: when the acquisition fails in one of these ways the cycle ends in
\* failure at that step: distribute is not called, no event is printed,
\* recordWinner is not called, and buyTokens is not called again in the
\* same cycle.
C14_FailedAcquisitionEndsCycle ==
    /\ []((swapIn # NoSwapIn /\ AcquisitionFailed(swapIn)) =>
            /\ pc = "idle"
            /\ outcome = "failed"
            /\ tokensReceived = 0
            /\ "distribute" \notin calls
            /\ {"send", "burn"} \cap submitted = {}
            /\ event = NoEvent
            /\ \A w \in DOMAIN recentWinners : recentWinners[w] # cycleCount)
    /\ [][(swapIn # NoSwapIn /\ cycleCount' = cycleCount) => swapIn' = swapIn]_vars

C14_TimedOutSwapThatLanded ==
    /\ pc = "idle"
    /\ outcome = "failed"
    /\ swapIn.confirm = "throw"
    /\ swapIn.landed
    /\ opTokens > 0
    /\ "distribute" \notin calls

\* C15: the amount distribute splits is the amount the operator account
\* received from the cycle's swap, also when the swap delivers less than
\* the quoted outAmount within the slippage bound.
C15_SplitIsWhatWasDelivered ==
    "distribute" \in calls => toSend + toBurn = SwapDelivered(swapIn)

\* The place of an await of runCycle in the pipeline.
StepOrder(p) ==
    CASE p = "main" -> 0
      [] p = "scan" -> 1
      [] p = "select" -> 2
      [] p = "claim" -> 3
      [] p = "buy" -> 4
      [] p = "send" -> 5
      [] p = "burn" -> 6
      [] OTHER -> 7

\* C16: within a cycle the steps occur in the order ranking, fee claim,
\* acquisition, send, burn, cooldown update; a step starts only after the
\* previous one has returned a result to go on with, never after an earlier
\* step skipped or failed, and no step occurs twice in a cycle.
C16_StepsInFixedOrder ==
    /\ [](/\ "claimFees" \in calls =>
                (holders # << >> /\ topLoser = holders[1]
                    /\ RLt(topLoser.pnl, RInt(0)))
          /\ "buyTokens" \in calls => ("claimFees" \in calls /\ solAvailable > 0)
          /\ "distribute" \in calls => ("buyTokens" \in calls /\ tokensReceived > 0)
          /\ "send" \in submitted => "distribute" \in calls
          /\ "burn" \in submitted => "send" \in confirmedTx
          /\ (\E w \in DOMAIN recentWinners : recentWinners[w] = cycleCount)
                => "burn" \in confirmedTx
          /\ pc \notin {"main", "idle"} => outcome = "running")
    /\ [][(cycleCount' = cycleCount /\ halted' = halted)
             => StepOrder(pc') > StepOrder(pc)]_vars

C16_FullPipelineInSecondCycle ==
    /\ cycleCount = 2
    /\ outcome = "complete"
    /\ calls = {"claimFees", "buyTokens", "getDecimals", "distribute"}
    /\ {"swap", "send", "burn"} \subseteq confirmedTx
    /\ topLoser.wallet \in DOMAIN recentWinners
    /\ recentWinners[topLoser.wallet] = 2

\* C17: every network call of a cycle is bounded by a timeout that ends the
\* step in failure, so every started cycle eventually ends, whatever the
\* external collaborators do.  Stated for the first step, whose ledger scan
\* and price request are plain awaits.
C17_EveryStartedCycleEnds == (pc = "scan") ~> (pc \in {"select", "idle"} \/ halted)

\* The token is on the bonding curve and the withdrawal did not go through:
\* the curve account could not be read, or the withdraw transaction was
\* worth sending and its submission threw, its confirmation timed out, or
\* its confirmation reported an execution error.
WithdrawFailed(in) ==
    /\ in.read = "data"
    /\ \/ in.read2 = "throw"
       \/ /\ in.read2 = "info"
          /\ ~(in.lamports < CURVE_DUST)
          /\ (in.send = "throw" \/ in.confirm \in {"throw", "err"})

\* C18: on the bonding curve, when the withdrawal fails claimFees returns 0
\* and the cycle is skipped without acquisition or distribution.
C18_FailedWithdrawSkipsCycle ==
    (feeIn # NoFeeIn /\ WithdrawFailed(feeIn)) =>
        /\ solAvailable = 0
        /\ pc = "idle"
        /\ outcome = "skip_no_fees"

\* The token is on the bonding curve and the withdrawal went through: the
\* curve account was read, the transaction was sent and confirmed without
\* error, and the operator balance was read afterwards.
WithdrawSucceeded(in) ==
    /\ in.read = "data"
    /\ in.read2 = "info"
    /\ ~(in.lamports < CURVE_DUST)
    /\ in.send = "ok"
    /\ in.confirm = "ok"
    /\ in.balRead = "ok"

\* C19: on the bonding curve, after a successful withdrawal the amount
\* claimFees returns is the amount withdrawn from the curve account minus the
\* gas reserve, clamped at 0; money the operator held before is not in it.
C19_UsableIsWithdrawnLessReserve ==
    (feeIn # NoFeeIn /\ WithdrawSucceeded(feeIn)) =>
        solAvailable = Max(0, feeIn.lamports - RESERVE_SOL)

\* The operator balance claimFees read in this step, 0 when it read none.
BalanceRead(in) == IF in.balRead = "ok" THEN in.balance ELSE 0

\* C20: in either fee state the amount claimFees returns, which is the amount
\* buyTokens is called with, is at least 0 and at most the operator balance
\* read in that step minus the gas reserve, clamped at 0.
C20_ClaimWithinBalanceLessReserve ==
    /\ solAvailable >= 0
    /\ feeIn # NoFeeIn =>
          solAvailable <= Max(0, BalanceRead(feeIn) - RESERVE_SOL)
    /\ pc = "buy" =>
          /\ feeIn # NoFeeIn
          /\ solAvailable <= Max(0, BalanceRead(feeIn) - RESERVE_SOL)

\* A later cycle withdrew from the curve and goes on to buy with the operator
\* balance less the reserve.
C20_CurveClaimReachesBuy ==
    /\ cycleCount = 2
    /\ pc = "buy"
    /\ isOnBondingCurve(feeIn)
    /\ feeIn.balance > RESERVE_SOL
    /\ solAvailable = feeIn.balance - RESERVE_SOL

\* C22: the event of a completed cycle reports that cycle's amounts:
\* tokensSent is the amount transferred (toSend), tokensBurned the amount
\* destroyed (toBurn), odd totals included, and its cycle and recipient are
\* those of the cycle that printed it.
C22_EventReportsCycleAmounts ==
    event # NoEvent =>
        /\ event.cycle = cycleCount
        /\ event.recipient = topLoser.wallet
        /\ event.tokensSent = toSend
        /\ event.tokensBurned = toBurn

\* C23: the wallet distribute is called with is the first of the list
\* getHolders returned in that cycle and, when it was selected, had pnl < 0,
\* balance > 0, was neither excluded nor the operator's wallet, had
\* currentValue at or above the floor and was not on cooldown for the
\* cycle; it stays the recipient to the end of the cycle.
C23_RecipientWasEligibleTopLoser ==
    /\ []("distribute" \in calls =>
            /\ holders # << >>
            /\ topLoser = holders[1]
            /\ RLt(topLoser.pnl, RInt(0))
            /\ topLoser.balance > 0
            /\ topLoser.wallet \notin EXCLUDED
            /\ topLoser.wallet # BotWallet
            /\ topLoser.wallet \in Wallets
            /\ ~RLt(topLoser.currentValue, MIN_VALUE_SOL)
            /\ outcome # "complete" =>
                  ~isOnCooldown(recentWinners, topLoser.wallet, cycleCount))
    /\ [][(pc = "select" /\ pc' = "claim") =>
             /\ topLoser' = holders[1]
             /\ ~isOnCooldown(recentWinners, holders[1].wallet, cycleCount)]_vars
    /\ [][(topLoser # NoHolder /\ cycleCount' = cycleCount) =>
             topLoser' = topLoser]_vars

C23_SecondCyclePaysTheOtherWallet ==
    /\ cycleCount = 2
    /\ pc = "burn"
    /\ "send" \in confirmedTx
    /\ "W1" \in DOMAIN recentWinners
    /\ recentWinners["W1"] = 1
    /\ topLoser.wallet = "W2"

\* C26: the cooldown map changes only when a cycle completes with its send
\* and its burn confirmed, and then only in the recipient's entry, which
\* becomes the current cycle number; every other step, every skipped and
\* every failed cycle leaves it as it is, and no entry is ever removed.
C26_CooldownMapOnlyGrowsOnCompletion ==
    [][recentWinners' # recentWinners =>
          /\ pc = "burn"
          /\ outcome' = "complete"
          /\ {"send", "burn"} \subseteq confirmedTx'
          /\ cycleCount' = cycleCount
          /\ DOMAIN recentWinners' = DOMAIN recentWinners \cup {topLoser.wallet}
          /\ recentWinners'[topLoser.wallet] = cycleCount
          /\ \A w \in DOMAIN recentWinners :
                w # topLoser.wallet => recentWinners'[w] = recentWinners[w]]_vars

C26_TwoWinnersRecorded ==
    /\ pc = "idle"
    /\ outcome = "complete"
    /\ DOMAIN recentWinners = {"W1", "W2"}
    /\ recentWinners[topLoser.wallet] = cycleCount
    /\ \E w \in DOMAIN recentWinners : recentWinners[w] < cycleCount

\* C27: a wallet that received a confirmed transfer in cycle k receives none
\* in cycle k+1 or k+2, also when the burn of cycle k failed after its send:
\* two confirmed transfers in a row to one wallet are more than
\* COOLDOWN_CYCLES cycles apart.
C27_NoSecondTransferWithinCooldown ==
    [][(paidAt' # paidAt /\ paidAt'.wallet = paidAt.wallet) =>
          paidAt'.cycle - paidAt.cycle > COOLDOWN_CYCLES]_vars

\* C28: when the confirmation of the swap returns an execution error,
\* buyTokens returns no positive amount and distribute is not called.
C28_FailedSwapIsNotDistributed ==
    (swapIn # NoSwapIn /\ swapIn.confirm = "err") =>
        /\ tokensReceived = 0
        /\ pc = "idle"
        /\ "distribute" \notin calls

\* C29: when the read of the bonding-curve account fails, claimFees does not
\* take the migrated branch: the operator balance does not become the usable
\* amount and the cycle goes no further.
C29_FailedCurveReadIsNotMigration ==
    (feeIn # NoFeeIn /\ feeIn.read = "throw") =>
        /\ solAvailable = 0
        /\ pc = "idle"

(***************************************************************************)
(* Properties of the split (SpecSplit).                                    *)
(***************************************************************************)

\* C6: toSend is the floor of half the total, toBurn is the rest, the two
\* add up to the total and toBurn exceeds toSend by 0 or 1.
C6_SplitIsExact ==
    pc = "split" =>
        /\ 2 * toSend <= tokensReceived
        /\ tokensReceived < 2 * toSend + 2
        /\ toBurn = tokensReceived - toSend
        /\ toSend + toBurn = tokensReceived
        /\ toBurn - toSend \in {0, 1}

C6_OddTotalSplit ==
    /\ pc = "split"
    /\ tokensReceived = 7
    /\ toSend = 3
    /\ toBurn = 4

(***************************************************************************)
(* Properties of the ranking (SpecRank).                                   *)
(***************************************************************************)
\* The place of the account at address a in the scan.
ScanPlace(a) == CHOOSE i \in 1..Len(accounts) : accounts[i].ata = a

Returned(w) == \E i \in 1..Len(holders) : holders[i].wallet = w

\* Some account of w passes every filter of getHolders but the cooldown.
PassesOtherFilters(w) ==
    \E i \in 1..Len(accounts) :
        /\ accounts[i].owner = w
        /\ Kept(accounts[i], history)
        /\ ~RLt(HolderOf(accounts[i], history, price).currentValue,
                MIN_VALUE_SOL)

\* C2: after recordWinner(w, k), getHolders with currentCycle k+1 or k+2
\* never returns w, and with any currentCycle >= k+3 it returns w whenever
\* w passes every other filter.
C2_CooldownWindow ==
    pc = "ranked" =>
        \A w \in DOMAIN recentWinners :
            LET k == recentWinners[w]
            IN  /\ cycleCount \in {k + 1, k + 2} => ~Returned(w)
                /\ (cycleCount >= k + 3 /\ PassesOtherFilters(w)) => Returned(w)

C2_OneCoolingOneReleased ==
    /\ pc = "ranked"
    /\ \E w \in DOMAIN recentWinners :
          /\ cycleCount = recentWinners[w] + COOLDOWN_CYCLES + 1
          /\ Returned(w)
    /\ \E v \in DOMAIN recentWinners :
          /\ cycleCount = recentWinners[v] + COOLDOWN_CYCLES
          /\ PassesOtherFilters(v)
          /\ ~Returned(v)

\* C10: the list getHolders returns is ordered by pnl ascending, holders of
\* equal pnl keep their scan order, and no returned wallet has a swap
\* history with totalTokensBought <= 0 or totalSolSpent <= 0.
C10_RankedAndBought ==
    pc = "ranked" =>
        /\ \A i, j \in 1..Len(holders) :
              i < j => /\ RLe(holders[i].pnl, holders[j].pnl)
                       /\ (holders[i].pnl = holders[j].pnl
                              => ScanPlace(holders[i].ata)
                                    < ScanPlace(holders[j].ata))
        /\ \A i \in 1..Len(holders) :
              LET h == getSwapHistory(history[holders[i].wallet])
              IN  h.totalTokensBought > 0 /\ h.totalSolSpent > 0

C10_ReorderedTieKeptOrder ==
    /\ pc = "ranked"
    /\ Len(accounts) = 3
    /\ Len(holders) = 3
    /\ ScanPlace(holders[1].ata) = 2
    /\ ScanPlace(holders[2].ata) = 3
    /\ ScanPlace(holders[3].ata) = 1
    /\ holders[1].pnl = holders[2].pnl
    /\ RLt(holders[2].pnl, holders[3].pnl)

\* The price source failed, had no price, or quoted 0.
PriceUnavailable ==
    \/ priceIn.kind \in {"throw", "none"}
    \/ (priceIn.kind = "ok" /\ priceIn.price = RInt(0))

\* C12: when the price source fails, has no price or quotes 0, getPrice
\* yields 0 and getHolders still returns its list, the one it computes for
\* a price of 0.
C12_PriceFailureStillRanks ==
    (pc = "ranked" /\ PriceUnavailable) =>
        /\ price = RInt(0)
        /\ holders = getHolders(accounts, history, RInt(0), cycleCount,
                                recentWinners)

C12_RankedWithoutPrice ==
    /\ pc = "ranked"
    /\ priceIn.kind = "throw"
    /\ price = RInt(0)
    /\ \E i \in 1..Len(accounts) : Kept(accounts[i], history)

\* C13: at price 0 every wallet with purchase history that is neither
\* excluded nor on cooldown is in the ranked list, with currentValue 0 and
\* pnl = -adjustedCostBasis.
C13_ZeroPriceRanksBySpend ==
    (pc = "ranked" /\ price = RInt(0)) =>
        \A i \in 1..Len(accounts) :
            (/\ Kept(accounts[i], history)
             /\ ~isOnCooldown(recentWinners, accounts[i].owner, cycleCount))
               => \E j \in 1..Len(holders) :
                     /\ holders[j].ata = accounts[i].ata
                     /\ holders[j].currentValue = RInt(0)
                     /\ holders[j].pnl = RSub(RInt(0), holders[j].costBasis)

\* C30: each wallet appears at most once in the list getHolders returns,
\* also when the scan returns several token accounts of one wallet.
C30_EachWalletRankedOnce ==
    pc = "ranked" =>
        \A i, j \in 1..Len(holders) :
            i # j => holders[i].wallet # holders[j].wallet

(***************************************************************************)
(* Properties of the swap history (SpecWindow).                            *)
(***************************************************************************)

\* Every transaction of the window that raised the wallet's tracked-asset
\* balance lowered its own reserve-currency balance by at most GAS_THRESHOLD.
OnlyUnpaidInflows(w) ==
    \A i \in 1..Len(w.txs) :
        w.txs[i].post - w.txs[i].pre > 0 => w.txs[i].ownSpent <= GAS_THRESHOLD

\* C11: a wallet all of whose inflows in the window cost it at most
\* GAS_THRESHOLD of its own reserve currency never appears in the list
\* getHolders returns, whatever its balance and whatever else the
\* transactions hold, the wallet being among the account keys or not.
C11_UnpaidInflowsNeverRanked ==
    (pc = "window" /\ OnlyUnpaidInflows(history["W1"])) => ~Returned("W1")

FetchOk(tx) == tx.fetch = "ok"

\* C25: a transaction that cannot be fetched or has no meta is skipped
\* alone, so the ranking is the one computed from the window without such
\* transactions; a window that cannot be fetched drops its wallet, and in
\* both cases the other wallet is still ranked.
C25_BadEntriesSkippedAlone ==
    pc = "window" =>
        LET w == history["W1"]
            readable == [history EXCEPT !["W1"] =
                            [avail |-> w.avail, txs |-> SelectSeq(w.txs, FetchOk)]]
        IN  /\ holders = getHolders(accounts, readable, price, cycleCount,
                                    recentWinners)
            /\ ~w.avail => ~Returned("W1")
            /\ Returned("W2")

C25_PurchaseAfterFailedFetchCounted ==
    /\ pc = "window"
    /\ Len(history["W1"].txs) = 2
    /\ history["W1"].txs[1].fetch = "throw"
    /\ history["W1"].txs[2] = BuyTx(4, 8)
    /\ \E i \in 1..Len(holders) :
          holders[i].wallet = "W1" /\ holders[i].swapBought = 4
    /\ Returned("W2")

\* A transaction that raised the wallet's own tracked-asset balance and
\* lowered its own reserve-currency balance by more than GAS_THRESHOLD.
OwnPurchase(tx) ==
    /\ tx.fetch = "ok"
    /\ tx.post - tx.pre > 0
    /\ tx.keyed
    /\ tx.ownSpent > GAS_THRESHOLD

\* The tokens the wallet's own purchases of a window brought in.
RECURSIVE OwnBought(_)
OwnBought(txs) ==
    IF txs = << >> THEN 0
    ELSE (IF OwnPurchase(Head(txs)) THEN Head(txs).post - Head(txs).pre ELSE 0)
         + OwnBought(Tail(txs))

\* C24: getSwapHistory counts a transaction if and only if the wallet's own
\* tracked-asset balance rose in it and the wallet's own reserve-currency
\* balance fell by strictly more than GAS_THRESHOLD, so the swapBought of a
\* returned wallet is the sum over exactly those transactions.
C24_CountsExactlyOwnPurchases ==
    pc = "window" =>
        \A i \in 1..Len(holders) :
            holders[i].wallet = "W1" =>
                holders[i].swapBought = OwnBought(history["W1"].txs)

(***************************************************************************)
(* Properties of a holder's figures (SpecPnl).                             *)
(***************************************************************************)

\* C21: for a returned wallet with balance b, swapBought tb, swapSpent ts
\* and price p: retainedRatio = min(1, b / tb), costBasis = ts * retainedRatio,
\* currentValue = min(b, tb) * p and pnl = currentValue - costBasis, each
\* equation cross-multiplied; (1000, 800, 10 SOL, 0.02 SOL) gives pnl 6 SOL
\* and (300, 1000, 50 SOL, 0.01 SOL) gives pnl -12 SOL.
C21_HolderFigures ==
    pc = "pnl" =>
        LET b == accounts[1].balance
            tx == history["W1"].txs[1]
            tb == tx.post - tx.pre
            ts == tx.ownSpent
            eff == IF b < tb THEN b ELSE tb
        IN  /\ \A i \in 1..Len(holders) :
                  LET h == holders[i]
                  IN  /\ h.balance = b /\ h.swapBought = tb
                      /\ h.retainedRatio.d > 0 /\ h.costBasis.d > 0
                      /\ h.currentValue.d > 0 /\ h.pnl.d > 0
                      /\ h.retainedRatio.n * tb = h.retainedRatio.d * eff
                      /\ h.costBasis.n * tb = h.costBasis.d * ts * eff
                      /\ h.currentValue.n * price.d
                            = h.currentValue.d * eff * price.n
                      /\ h.pnl.n * (tb * price.d)
                            = h.pnl.d * (eff * price.n * tb - ts * eff * price.d)
            /\ (b = 1000 /\ tb = 800 /\ ts = 10000 /\ price = RInt(20))
                  => (Len(holders) = 1 /\ holders[1].pnl = RInt(6000))
            /\ (b = 300 /\ tb = 1000 /\ ts = 50000 /\ price = RInt(10))
                  => (Len(holders) = 1 /\ holders[1].pnl = RInt(-12000))

C21_ClampedHolderRanked ==
    /\ pc = "pnl"
    /\ accounts[1].balance = 1000
    /\ Len(holders) = 1
    /\ holders[1].swapBought = 800
    /\ holders[1].retainedRatio = RInt(1)
    /\ holders[1].costBasis = RInt(10000)
    /\ holders[1].currentValue = RInt(16000)
    /\ holders[1].pnl = RInt(6000)

\* The pnl values of a list of holders, in order.
PnlsOf(hs) == [i \in 1..Len(hs) |-> hs[i].pnl]

\* C31: with swapBought, swapSpent and the price fixed, getHolders gives the
\* same pnl for every balance at or above swapBought, so tokens received by
\* transfer on top of the purchases change nothing; and for every balance
\* the pnl is at least -swapSpent.
C31_TransfersDoNotMovePnl ==
    pc = "pnl" =>
        LET b == accounts[1].balance
            tx == history["W1"].txs[1]
            tb == tx.post - tx.pre
            ts == tx.ownSpent
        IN  /\ b >= tb =>
                  \A b2 \in PnlBalances \cup {tb} :
                      b2 >= tb =>
                          PnlsOf(getHolders(<< Account("a1", "W1", b2) >>,
                                            history, price, cycleCount,
                                            recentWinners))
                              = PnlsOf(holders)
            /\ \A i \in 1..Len(holders) :
                  holders[i].pnl.n >= -ts * holders[i].pnl.d

C31_BalanceFarAboveBought ==
    /\ pc = "pnl"
    /\ accounts[1].balance = 300
    /\ price = RInt(10)
    /\ Len(holders) = 1
    /\ holders[1].swapBought = 6
    /\ holders[1].costBasis = RInt(7)
    /\ holders[1].pnl = RInt(53)

====
